---- MODULE Spec2Model ----
(***************************************************************************)
(* Model of the two serial front ends of wall_e_control:                   *)
(*   ros2_arduino_bridge.py  (ArduinoBridge: cmd_vel -> Y/X drive writes)  *)
(*   servo_control_ui.py     (ServoKeyboard: keys -> servo position writes)*)
(* A run is one of the two processes (prog); each owns its own serial      *)
(* handle.  A request (a cmd_vel message, a keypress) is one action: the   *)
(* handlers run to completion on the single dispatch thread.               *)
(* What a handler did on the link is kept in lastOp.events, in order.      *)
(* The device may echo a line after a command; the echo takes its time:    *)
(* fly counts the echoes still on their way to the port.                   *)
(* serial.write may raise SerialException: every write draws its outcome,  *)
(* at most MaxFaults failing writes within one keyboard request.           *)
(* ArduinoBridge.destroy_node is offered as an operation of the node;      *)
(* main() of the bridge never calls it.                                    *)
(***************************************************************************)
EXTENDS Integers, Sequences, FiniteSets

VARIABLES
    prog,           \* which main() runs: "bridge" | "keyboard"
    pc,             \* position of the process
    exitBy,         \* how main() was left ("" while alive)
    serial,         \* self.serial: "none" | "open" | "closed"
    max_speed,      \* ArduinoBridge.max_speed
    drive,          \* device side: last Y / X value received
    positions,      \* ServoKeyboard.positions
    current_servo,  \* ServoKeyboard.current_servo
    lastOp,         \* the last operation: what it was and what it did on the link
    failedBefore,   \* a write of the operation before the last one raised
    nreq,           \* cmd_vel messages delivered
    nsteps,         \* leading step keys pressed
    nkeys,          \* keys pressed after the leading steps
    held,           \* the delta of the leading run of one repeated step key (0: none)
    device,         \* the controller on the link: "silent" | "echoing"
    fly             \* echoes the device has sent that have not reached the port yet

vars == <<prog, pc, exitBy, serial, max_speed, drive, positions,
          current_servo, lastOp, failedBefore, nreq, nsteps, nkeys, held,
          device, fly>>

bridgeVars == <<max_speed, drive, nreq>>
kbdVars == <<positions, current_servo, nsteps, nkeys, held, fly>>

----------------------------------------------------------------------------
(* Bounds of the model *)

\* velocity components are k / 2^VelBits, k in -MaxVelNum .. MaxVelNum
VelBits == 1
MaxVelNum == 3
\* max_speed parameter values are SpeedStep * (0 .. MaxSpeedMult), the default
\* and half of it
SpeedStep == 75
MaxSpeedMult == 2
\* cmd_vel messages per run
MaxReq == 2
\* failing writes within one keyboard request
MaxFaults == 1
\* leading step keys, and keys after them
MaxSteps == 61
MaxKeys == 2
\* echoes on their way at the end of a command
MaxFly == 1

(* Program constants *)
DefaultMaxSpeed == 100
DriveLimit == 100
SettleMs == 2000
InterCmdDelayMs == 10

----------------------------------------------------------------------------
(* Link events *)

Ev(kind, sym, val, ok) == [kind |-> kind, sym |-> sym, val |-> val, ok |-> ok]
Write(sym, val, ok) == Ev("write", sym, val, ok)
Sleep(ms) == Ev("sleep", "-", ms, TRUE)
Close == Ev("close", "-", 0, TRUE)
Open(ok) == Ev("open", "-", 0, ok)

Op(name, arg, events) == [op |-> name, arg |-> arg, events |-> events]
NoArg == <<>>

Writes(events) == SelectSeq(events, LAMBDA e : e.kind = "write")
HasFailure(events) == \E i \in 1..Len(events) : ~events[i].ok

\* the device takes the value of every write that did not raise
RECURSIVE Deliver(_, _)
Deliver(d, events) ==
    IF events = <<>> THEN d
    ELSE LET e == Head(events)
             d1 == IF e.kind = "write" /\ e.ok /\ e.sym \in DOMAIN d
                   THEN [d EXCEPT ![e.sym] = e.val] ELSE d
         IN Deliver(d1, Tail(events))

----------------------------------------------------------------------------
(* ros2_arduino_bridge.py *)

VelDen == 2 ^ VelBits
Components == -MaxVelNum .. MaxVelNum
MaxSpeeds == {SpeedStep * k : k \in 0..MaxSpeedMult}
                \cup {DefaultMaxSpeed, DefaultMaxSpeed \div 2}

\* (variant: rounding down)
PyIntFloor(p, d) == p \div d
\* Python int() of the float p / d: truncation toward zero
PyInt(p, d) == IF p >= 0 THEN p \div d ELSE -((-p) \div d)

Min(a, b) == IF a < b THEN a ELSE b
Max(a, b) == IF a > b THEN a ELSE b

\* max(-100, min(100, v))
ClampDrive(v) == Max(-DriveLimit, Min(DriveLimit, v))

\* linear = int(msg.linear.x * self.max_speed), then clamped
Scale(k, speed) == ClampDrive(PyInt(k * speed, VelDen))

\* (variant: the except clause around each write, so X follows a failed Y)
cmd_vel_NoStop(linear, angular, okY, okX) ==
    <<Write("Y", linear, okY), Sleep(InterCmdDelayMs), Write("X", angular, okX)>>
\* (variant: a write is refused once the operation before had a failure)
cmd_vel_Latched(linear, angular, okY, okX) ==
    IF HasFailure(lastOp.events) THEN <<>>
    ELSE IF ~okY THEN <<Write("Y", linear, FALSE)>>
    ELSE <<Write("Y", linear, TRUE), Sleep(InterCmdDelayMs), Write("X", angular, okX)>>
\* (variant: the turn channel is written first)
cmd_vel_XFirst(linear, angular, okY, okX) ==
    IF ~okY THEN <<Write("X", angular, FALSE)>>
    ELSE <<Write("X", angular, TRUE), Sleep(InterCmdDelayMs), Write("Y", linear, okX)>>
\* the try block of cmd_vel_callback: Y, delay, X; a raise ends it
cmd_vel_events(linear, angular, okY, okX) ==
    IF ~okY THEN <<Write("Y", linear, FALSE)>>
    ELSE <<Write("Y", linear, TRUE), Sleep(InterCmdDelayMs), Write("X", angular, okX)>>

\* (variant: the port is closed before the stop is sent)
destroy_CloseFirst(okY, okX) ==
    <<Close, Write("Y", 0, FALSE)>>
\* the try block of destroy_node: Y0, X0, close; a raise skips the rest
destroy_events(okY, okX) ==
    IF ~okY THEN <<Write("Y", 0, FALSE)>>
    ELSE IF ~okX THEN <<Write("Y", 0, TRUE), Write("X", 0, FALSE)>>
    ELSE <<Write("Y", 0, TRUE), Write("X", 0, TRUE), Close>>

Closes(events) == \E i \in 1..Len(events) : events[i].kind = "close"

\* the try block of ArduinoBridge.__init__: open and settle, nothing else
bridge_open_events(ok) ==
    IF ok THEN <<Open(TRUE), Sleep(SettleMs)>> ELSE <<Open(FALSE)>>

BridgeInitSwallow ==
    /\ prog = "bridge" /\ pc = "start"
    /\ \E speed \in MaxSpeeds, ok \in BOOLEAN :
        /\ max_speed' = speed
        /\ serial' = IF ok THEN "open" ELSE "none"
        /\ lastOp' = Op("init", NoArg, bridge_open_events(ok))
    /\ pc' = "spinning"
    /\ exitBy' = ""
    /\ failedBefore' = FALSE
    /\ UNCHANGED <<prog, device, drive, nreq, kbdVars>>

\* main: node = ArduinoBridge()
BridgeInit ==
    /\ prog = "bridge" /\ pc = "start"
    /\ \E speed \in MaxSpeeds, ok \in BOOLEAN :
        /\ max_speed' = speed
        /\ IF ok
           THEN /\ serial' = "open"
                /\ pc' = "spinning"
                /\ exitBy' = ""
                /\ lastOp' = Op("init", NoArg, bridge_open_events(TRUE))
           ELSE /\ serial' = "none"
                /\ pc' = "exited"
                /\ exitBy' = "open_failed"
                /\ lastOp' = Op("init", NoArg, bridge_open_events(FALSE))
    /\ failedBefore' = FALSE
    /\ UNCHANGED <<prog, device, drive, nreq, kbdVars>>

\* rclpy.spin delivers one Twist to cmd_vel_callback
CmdVelCallback ==
    /\ prog = "bridge" /\ pc = "spinning" /\ nreq < MaxReq
    /\ \E lin \in Components, ang \in Components, okY \in BOOLEAN :
       \E okX \in (IF okY THEN BOOLEAN ELSE {TRUE}) :
        LET linear == Scale(lin, max_speed)
            angular == Scale(ang, max_speed)
            events == cmd_vel_events(linear, angular, okY, okX)
        IN  /\ lastOp' = Op("cmd_vel", <<lin, ang>>, events)
            /\ drive' = Deliver(drive, events)
    /\ failedBefore' = HasFailure(lastOp.events)
    /\ nreq' = nreq + 1
    /\ UNCHANGED <<prog, device, pc, exitBy, serial, max_speed, kbdVars>>

\* ArduinoBridge.destroy_node, called by whoever owns the node
DestroyNode ==
    /\ prog = "bridge" /\ pc = "spinning"
    /\ \E okY \in BOOLEAN :
       \E okX \in (IF okY THEN BOOLEAN ELSE {TRUE}) :
        LET events == destroy_events(okY, okX)
        IN  /\ lastOp' = Op("destroy_node", <<drive.Y, drive.X>>, events)
            /\ drive' = Deliver(drive, events)
            /\ serial' = IF Closes(events) THEN "closed" ELSE serial
    /\ failedBefore' = HasFailure(lastOp.events)
    /\ pc' = "destroyed"
    /\ UNCHANGED <<prog, device, exitBy, max_speed, nreq, kbdVars>>

\* main: how rclpy.spin is left, then the finally block (rclpy.shutdown)
SpinCauses == {"interrupt", "exception", "stop_request"}
main_exit(cause) == <<>>
SpinEnds ==
    /\ prog = "bridge" /\ pc = "spinning"
    /\ \E cause \in SpinCauses :
        /\ exitBy' = cause
        /\ lastOp' = Op("main_exit", NoArg, main_exit(cause))
    /\ failedBefore' = HasFailure(lastOp.events)
    /\ pc' = "exited"
    /\ UNCHANGED <<prog, device, serial, max_speed, drive, nreq, kbdVars>>

BridgeNext == BridgeInit \/ CmdVelCallback \/ DestroyNode \/ SpinEnds

----------------------------------------------------------------------------
(* servo_control_ui.py *)

MinPos == 0
MaxPos == 100
CenterPos == 50
StepSize == 5
FineStep == 1
TestWaitMs == 200
EchoWaitMs == 50
PresetDelayMs == 150

\* declaration order of self.positions
ServoOrder == <<"head_rotation", "neck_top", "neck_bottom", "eye_right",
                "eye_left", "arm_left", "arm_right">>
Servos == {ServoOrder[i] : i \in 1..Len(ServoOrder)}

servo_commands_Shared ==
    [head_rotation |-> "G", neck_top |-> "T", neck_bottom |-> "B",
     eye_right |-> "U", eye_left |-> "U", arm_left |-> "L", arm_right |-> "R"]

\* self.servo_commands
servo_commands ==
    [head_rotation |-> "G", neck_top |-> "T", neck_bottom |-> "B",
     eye_right |-> "U", eye_left |-> "E", arm_left |-> "L", arm_right |-> "R"]

\* home_positions, and the order of its items()
HomeOrder == <<"head_rotation", "neck_top", "neck_bottom", "eye_right",
               "eye_left", "arm_left", "arm_right">>
home_positions ==
    [head_rotation |-> 50, neck_top |-> 80, neck_bottom |-> 20,
     eye_right |-> 40, eye_left |-> 40, arm_left |-> 50, arm_right |-> 50]

\* d[k] = v on a Python dict: an unknown key is added
DictSet(d, k, v) == [x \in DOMAIN d \cup {k} |-> IF x = k THEN v ELSE d[x]]

ResetInput == Ev("reset_input", "-", 0, TRUE)
ResetOutput == Ev("reset_output", "-", 0, TRUE)
Flush == Ev("flush", "-", 0, TRUE)
\* readline returned a line; tag: whose echo it is ("own": of the command just
\* written, "stale": of an earlier one)
ReadLine(tag) == Ev("readline", tag, 0, TRUE)

\* What the port holds when in_waiting is looked at, after reset_input_buffer,
\* write and the wait: of the f echoes on their way, rem are still on their
\* way at the reset (the others came before it and are dropped); the device
\* echoes the new command (e = 1) or not; b lines come in during the wait, in
\* the order sent.  rep is the line readline returns, fly what is still on its
\* way afterwards.  A write that raises skips the wait and the read.
EchoOutcomes(f, ok) ==
    IF device = "silent" THEN {[rep |-> "none", fly |-> 0]}
    ELSE IF ~ok THEN {[rep |-> "none", fly |-> f]}
    ELSE {[rep |-> IF t[3] = 0 THEN "none" ELSE IF t[1] > 0 THEN "stale" ELSE "own",
           fly |-> t[1] + t[2] - t[3]] :
            t \in {u \in (0..f) \X {0, 1} \X (0..(f + 1)) :
                      u[3] <= u[1] + u[2] /\ u[1] + u[2] - u[3] <= MaxFly}}

send_servo_command_Retry(servo, pos, ok, rep) ==
    (IF ok THEN <<>>
     ELSE <<ResetInput, Write(servo_commands[servo], pos, FALSE)>>)
        \o <<ResetInput, Write(servo_commands[servo], pos, ok)>>
        \o (IF ok THEN <<Flush, Sleep(EchoWaitMs)>> ELSE <<>>)
        \o (IF ok /\ rep # "none" THEN <<ReadLine(rep)>> ELSE <<>>)

send_servo_command_Latched(servo, pos, ok, rep) ==
    IF HasFailure(lastOp.events) THEN <<>>
    ELSE <<ResetInput, Write(servo_commands[servo], pos, ok)>>
            \o (IF ok THEN <<Flush, Sleep(EchoWaitMs)>> ELSE <<>>)
            \o (IF ok /\ rep # "none" THEN <<ReadLine(rep)>> ELSE <<>>)

\* send_servo_command: what it does on the link with the stored position
send_servo_command(servo, pos, ok, rep) ==
    <<ResetInput, Write(servo_commands[servo], pos, ok)>>
        \o (IF ok THEN <<Flush, Sleep(EchoWaitMs)>> ELSE <<>>)
        \o (IF ok /\ rep # "none" THEN <<ReadLine(rep)>> ELSE <<>>)

\* (variant: the except branch restores the position)
AfterSendRollback(before, assigned, ok) == IF ok THEN assigned ELSE before
\* self.positions once send_servo_command has returned: its except branch
\* only logs, the assignment made before the call stays
AfterSend(before, assigned, ok) == assigned

\* (variant: no clamp)
StepToNoClamp(p, delta) == p + delta
\* (variant: the decrease branch adds)
StepToWrongSign(p, delta) ==
    IF delta > 0 THEN Min(MaxPos, p + delta) ELSE Max(MinPos, p + (-delta))
\* the increase / decrease branches of run
StepTo(p, delta) ==
    IF delta > 0 THEN Min(MaxPos, p + delta) ELSE Max(MinPos, p - (-delta))

\* the loop of center_all_servos / home_position from index i on:
\* assign, send, sleep, for each servo in order; fails = indices whose write raises
\* the result is the set of outcomes (one per course of the echoes)
RECURSIVE preset_loop(_, _, _, _, _)
preset_loop(st, order, target, fails, i) ==
    IF i > Len(order) THEN {st}
    ELSE LET servo == order[i]
             ok == i \notin fails
             assigned == DictSet(st.pos, servo, target[servo])
         IN UNION {preset_loop(
                    [pos |-> AfterSend(st.pos, assigned, ok),
                     events |-> st.events
                            \o send_servo_command(servo, assigned[servo], ok, out.rep)
                            \o <<Sleep(PresetDelayMs)>>,
                     fly |-> out.fly],
                    order, target, fails, i + 1) :
                  out \in EchoOutcomes(st.fly, ok)}

\* (variant: the loop stops at the first write that raises)
preset_AbortOnFailure(pos, order, target, fails) ==
    LET first == IF fails = {} THEN Len(order) + 1
                 ELSE CHOOSE i \in fails : \A j \in fails : i <= j
        cut == [k \in 1..Min(first, Len(order)) |-> order[k]]
    IN preset_loop([pos |-> pos, events |-> <<>>, fly |-> fly], cut, target, fails, 1)
preset(pos, order, target, fails) ==
    preset_loop([pos |-> pos, events |-> <<>>, fly |-> fly], order, target, fails, 1)

center_target == [s \in Servos |-> CenterPos]

FailSets(n) == {F \in SUBSET (1..n) : Cardinality(F) <= MaxFaults}
OkChoices == IF MaxFaults > 0 THEN BOOLEAN ELSE {TRUE}

StepDeltas == {StepSize, -StepSize, FineStep, -FineStep}

\* budget of a key: a leading run of one repeated step key (a held key) is
\* counted apart from the keys that follow it
LeadingStep(delta) == nkeys = 0 /\ nsteps < MaxSteps /\ held \in {0, delta}
KeyBudget == nkeys < MaxKeys
CountKey == /\ nkeys' = nkeys + 1
            /\ nsteps' = MaxSteps
            /\ held' = 0

Running == prog = "keyboard" /\ pc = "running"
Noted == failedBefore' = HasFailure(lastOp.events)

kbd_open_NoReset(ok) ==
    IF ok THEN <<Open(TRUE), Sleep(SettleMs)>> ELSE <<Open(FALSE)>>

\* the try block of ServoKeyboard.__init__: open, settle, reset both buffers
kbd_open_events(ok) ==
    IF ok THEN <<Open(TRUE), Sleep(SettleMs), ResetInput, ResetOutput>>
    ELSE <<Open(FALSE)>>

\* test_connection: G50, flush, wait, read the echo if one is waiting
test_connection(ok, rep) ==
    <<Write("G", CenterPos, ok)>>
        \o (IF ok THEN <<Flush, Sleep(TestWaitMs)>> ELSE <<>>)
        \o (IF ok /\ rep # "none" THEN <<ReadLine(rep)>> ELSE <<>>)

\* main: node = ServoKeyboard()  (open, settle, reset buffers, test_connection)
KbdInit ==
    /\ prog = "keyboard" /\ pc = "start"
    /\ \E ok \in BOOLEAN, okTest \in OkChoices :
        IF ~ok
        THEN /\ serial' = "none"
             /\ pc' = "exited"
             /\ exitBy' = "open_failed"
             /\ lastOp' = Op("init", NoArg, kbd_open_events(FALSE))
             /\ UNCHANGED <<positions, current_servo, fly>>
        ELSE \E out \in EchoOutcomes(fly, okTest) :
             /\ serial' = "open"
             /\ positions' = [s \in Servos |-> CenterPos]
             /\ current_servo' = ServoOrder[1]
             /\ lastOp' = Op("init", NoArg,
                    kbd_open_events(TRUE) \o test_connection(okTest, out.rep))
             /\ fly' = out.fly
             /\ pc' = IF okTest THEN "running" ELSE "exited"
             /\ exitBy' = IF okTest THEN "" ELSE "exception"
    /\ failedBefore' = FALSE
    /\ UNCHANGED <<prog, device, nsteps, nkeys, held, bridgeVars>>

\* (variant: selecting also sends the selected servo's stored position)
KeySelectAndSend ==
    /\ Running /\ KeyBudget
    /\ \E i \in 1..Len(ServoOrder) :
        /\ current_servo' = ServoOrder[i]
        /\ lastOp' = Op("select", <<i>>,
               send_servo_command(ServoOrder[i], positions[ServoOrder[i]],
                                  TRUE, "none"))
    /\ CountKey /\ Noted
    /\ UNCHANGED <<prog, device, fly, pc, exitBy, serial, positions, bridgeVars>>

\* keys 1-7
KeySelect ==
    /\ Running /\ KeyBudget
    /\ \E i \in 1..Len(ServoOrder) :
        /\ current_servo' = ServoOrder[i]
        /\ lastOp' = Op("select", <<i>>, <<>>)
    /\ CountKey /\ Noted
    /\ UNCHANGED <<prog, device, fly, pc, exitBy, serial, positions, bridgeVars>>

\* w, s, + = ], - _ [
KeyStep ==
    /\ Running
    /\ \E delta \in StepDeltas, ok \in OkChoices :
       \E out \in EchoOutcomes(fly, ok) :
        LET assigned == DictSet(positions, current_servo,
                                StepTo(positions[current_servo], delta))
        IN  /\ LeadingStep(delta) \/ KeyBudget
            /\ positions' = AfterSend(positions, assigned, ok)
            /\ lastOp' = Op("step", <<delta>>,
                    send_servo_command(current_servo, assigned[current_servo],
                                       ok, out.rep))
            /\ fly' = out.fly
            /\ IF LeadingStep(delta)
               THEN /\ nsteps' = nsteps + 1
                    /\ held' = delta
                    /\ UNCHANGED nkeys
               ELSE CountKey
    /\ Noted
    /\ UNCHANGED <<prog, device, pc, exitBy, serial, current_servo, bridgeVars>>

\* 0
KeyCenterAll ==
    /\ Running /\ KeyBudget
    /\ \E fails \in FailSets(Len(ServoOrder)) :
      \E done \in preset(positions, ServoOrder, center_target, fails) :
        /\ fly' = done.fly
        /\ positions' = done.pos
        /\ lastOp' = Op("center_all", NoArg, done.events)
    /\ CountKey /\ Noted
    /\ UNCHANGED <<prog, device, pc, exitBy, serial, current_servo, bridgeVars>>

\* h
KeyHome ==
    /\ Running /\ KeyBudget
    /\ \E fails \in FailSets(Len(HomeOrder)) :
      \E done \in preset(positions, HomeOrder, home_positions, fails) :
        /\ fly' = done.fly
        /\ positions' = done.pos
        /\ lastOp' = Op("home", NoArg, done.events)
    /\ CountKey /\ Noted
    /\ UNCHANGED <<prog, device, pc, exitBy, serial, current_servo, bridgeVars>>

\* r
KeyReset ==
    /\ Running /\ KeyBudget
    /\ \E ok \in OkChoices :
       \E out \in EchoOutcomes(fly, ok) :
        LET assigned == DictSet(positions, current_servo, CenterPos)
        IN  /\ positions' = AfterSend(positions, assigned, ok)
            /\ lastOp' = Op("reset", NoArg,
                    send_servo_command(current_servo, assigned[current_servo],
                                       ok, out.rep))
            /\ fly' = out.fly
    /\ CountKey /\ Noted
    /\ UNCHANGED <<prog, device, pc, exitBy, serial, current_servo, bridgeVars>>

\* ? prints the instructions; any other single character matches no branch
KeyIgnored ==
    /\ Running /\ KeyBudget
    /\ \E what \in {"help", "other"} : lastOp' = Op(what, NoArg, <<>>)
    /\ CountKey /\ Noted
    /\ UNCHANGED <<prog, device, fly, pc, exitBy, serial, positions, current_servo, bridgeVars>>

\* the finally block of run: restore the terminal, close the port
run_finally == <<Close>>

\* q, Q
KeyQuit ==
    /\ Running
    /\ lastOp' = Op("quit", NoArg, run_finally)
    /\ serial' = "closed"
    /\ pc' = "exited"
    /\ exitBy' = "quit"
    /\ Noted
    /\ UNCHANGED <<prog, device, fly, positions, current_servo, nsteps, nkeys, held, bridgeVars>>

\* get_key read ESC: it now waits in sys.stdin.read(2)
KeyEsc ==
    /\ Running /\ KeyBudget
    /\ pc' = "esc_wait"
    /\ lastOp' = Op("esc", NoArg, <<>>)
    /\ CountKey /\ Noted
    /\ UNCHANGED <<prog, device, fly, exitBy, serial, positions, current_servo, bridgeVars>>

\* the two characters arrive: key is a three-character string, no branch matches
EscTail ==
    /\ prog = "keyboard" /\ pc = "esc_wait"
    /\ pc' = "running"
    /\ lastOp' = Op("other", NoArg, <<>>)
    /\ Noted
    /\ UNCHANGED <<prog, device, fly, exitBy, serial, positions, current_servo, nsteps, nkeys,
                   held, bridgeVars>>

\* KeyboardInterrupt inside run
KbdInterrupt ==
    /\ prog = "keyboard" /\ pc \in {"running", "esc_wait"}
    /\ lastOp' = Op("interrupt", NoArg, run_finally)
    /\ serial' = "closed"
    /\ pc' = "exited"
    /\ exitBy' = "interrupt"
    /\ Noted
    /\ UNCHANGED <<prog, device, fly, positions, current_servo, nsteps, nkeys, held, bridgeVars>>

KbdNext ==
    \/ KbdInit \/ KeySelect \/ KeyStep \/ KeyCenterAll \/ KeyHome \/ KeyReset
    \/ KeyIgnored \/ KeyQuit \/ KeyEsc \/ EscTail \/ KbdInterrupt

----------------------------------------------------------------------------

Init ==
    /\ prog \in {"bridge", "keyboard"}
    /\ pc = "start"
    /\ exitBy = ""
    /\ serial = "none"
    /\ max_speed = DefaultMaxSpeed
    /\ drive = [Y |-> 0, X |-> 0]
    /\ positions = <<>>
    /\ current_servo = ""
    /\ lastOp = Op("none", NoArg, <<>>)
    /\ failedBefore = FALSE
    /\ nreq = 0 /\ nsteps = 0 /\ nkeys = 0 /\ held = 0
    /\ device \in {"silent", "echoing"}
    /\ fly = 0

\* the bridge never reads the port; the keyboard is run against a device that
\* does not echo (SpecKbd) or one that does (SpecEcho, single commands only)
InitBridge == Init /\ prog = "bridge" /\ device = "silent"
InitKbd == Init /\ prog = "keyboard" /\ device = "silent"
InitEcho == Init /\ prog = "keyboard" /\ device = "echoing"

EchoNext ==
    \/ KbdInit \/ KeySelect \/ KeyStep \/ KeyReset \/ KeyIgnored \/ KeyQuit
    \/ KeyEsc \/ EscTail \/ KbdInterrupt
SpecEcho == InitEcho /\ [][EchoNext]_vars

\* startup of either program, up to the first command that uses the link
FirstCmdVel == nreq = 0 /\ CmdVelCallback
FirstKeyStep == nsteps = 0 /\ nkeys = 0 /\ KeyStep
StartupNext == BridgeInit \/ FirstCmdVel \/ KbdInit \/ FirstKeyStep
SpecStartup == Init /\ [][StartupNext]_vars

SpecBridge == InitBridge /\ [][BridgeNext]_vars
SpecKbd == InitKbd /\ [][KbdNext]_vars

----------------------------------------------------------------------------
(* Properties *)

Abs(v) == IF v < 0 THEN -v ELSE v
LastEvents == lastOp.events
LastWrites == Writes(lastOp.events)
FirstClose(events) ==
    CHOOSE k \in 1..Len(events) :
        /\ events[k].kind = "close"
        /\ \A n \in 1..(k - 1) : events[n].kind # "close"
\* a Y0 write and then an X0 write, both taken by the link, before index k
StopBefore(events, k) ==
    \E i, j \in 1..Len(events) :
        /\ i < j /\ j < k
        /\ events[i].kind = "write" /\ events[i].sym = "Y" /\ events[i].val = 0
        /\ events[i].ok
        /\ events[j].kind = "write" /\ events[j].sym = "X" /\ events[j].val = 0
        /\ events[j].ok

\* C1 (as claimed): however the bridge process leaves rclpy.spin (interrupt,
\* exception, stop request), a Y0 and an X0 write are issued and the serial
\* handle is closed before the process ends.
C1_EveryExitStopsAndCloses ==
    (prog = "bridge" /\ pc = "exited" /\ exitBy \in SpinCauses) =>
        /\ serial = "closed"
        /\ Closes(LastEvents)
        /\ StopBefore(LastEvents, FirstClose(LastEvents))

\* C2: whenever the bridge's handle has been released, the operation that
\* released it was destroy_node, and a Y0 write and then an X0 write went out
\* on the link before the close, whatever the drive channels held before.
C2_StopBeforeRelease ==
    (prog = "bridge" /\ serial = "closed") =>
        /\ lastOp.op = "destroy_node"
        /\ Closes(LastEvents)
        /\ StopBefore(LastEvents, FirstClose(LastEvents))
        /\ drive = [Y |-> 0, X |-> 0]

\* destroy_node released the handle after a command had left both drive
\* channels non-zero
C2_Witness ==
    /\ prog = "bridge" /\ serial = "closed" /\ lastOp.op = "destroy_node"
    /\ lastOp.arg[1] # 0 /\ lastOp.arg[2] # 0
    /\ drive = [Y |-> 0, X |-> 0]

\* C3 (as claimed): once destroy_node has run, the serial handle is released,
\* also when the Y0 or the X0 write failed.
C3_CloseAlwaysReleases ==
    (prog = "bridge" /\ lastOp.op = "destroy_node") => serial = "closed"

\* C4: in the keyboard controller the registry always holds exactly the seven
\* servo entries, every stored position is an integer in [0,100], and after a
\* step or a reset the position read back for the current servo is the value
\* that was stored and sent.
C4_RegistryInRange ==
    (prog = "keyboard" /\ serial # "none") =>
        /\ DOMAIN positions =
              {"head_rotation", "neck_top", "neck_bottom", "eye_right",
               "eye_left", "arm_left", "arm_right"}
        /\ \A s \in DOMAIN positions : positions[s] \in 0..100
        /\ lastOp.op \in {"step", "reset"} =>
              /\ Len(LastWrites) = 1
              /\ LastWrites[1].val = positions[current_servo]

\* a held decrease took head_rotation down to 0, then neck_top was selected
\* and stepped
C4_Witness ==
    /\ prog = "keyboard" /\ pc = "running"
    /\ positions["head_rotation"] = 0
    /\ current_servo = "neck_top"
    /\ lastOp.op = "step"
    /\ positions["neck_top"] = 55

ClampPos(v) == IF v > 100 THEN 100 ELSE IF v < 0 THEN 0 ELSE v

\* a run of n presses of one step key from 50 ends at clamp(50 + n * delta)
C5_Run ==
    held # 0 => positions["head_rotation"] = ClampPos(50 + held * nsteps)
\* a step key stores clamp(old + delta) for the selected servo
C5_StepAct ==
    (lastOp'.op = "step" /\ (nsteps' # nsteps \/ nkeys' # nkeys)) =>
        /\ lastOp'.arg[1] \in {1, -1, 5, -5}
        /\ positions'[current_servo] =
              ClampPos(positions[current_servo] + lastOp'.arg[1])

\* C5: a relative step stores exactly clamp(old + delta, 0, 100) for delta in
\* {+1, -1, +5, -5}; n presses of one step key from 50 end at
\* clamp(50 + n * delta): sixty +1 steps end at 100, sixty -1 steps at 0, no
\* value in between leaves [0,100], and a further step at the bound stays there.
C5_RelativeStep == [](C5_Run) /\ [][C5_StepAct]_vars

\* +1 was pressed more than sixty times from 50: the value is 100, and the
\* last press found it at 100 already
C5_Witness ==
    /\ prog = "keyboard" /\ held = 1 /\ nsteps > 60
    /\ positions["head_rotation"] = 100
    /\ lastOp.op = "step" /\ LastWrites[1].val = 100

\* C6 (as claimed): a velocity command makes exactly two writes, Y then X, and
\* each of the two is followed by the inter-command delay.
C6_TwoWritesEachDelayed ==
    (prog = "bridge" /\ lastOp.op = "cmd_vel") =>
        /\ Len(LastEvents) = 4
        /\ LastEvents[1].kind = "write" /\ LastEvents[1].sym = "Y"
        /\ LastEvents[2] = Sleep(10)
        /\ LastEvents[3].kind = "write" /\ LastEvents[3].sym = "X"
        /\ LastEvents[4] = Sleep(10)

\* C6 (amended): a velocity command writes Y first; if that write does not
\* raise, the 10 ms delay follows and then X is written, and nothing follows
\* the X write; if the Y write raises, the callback ends with that one write.
\* send_velocity(1.0, 0.0, 100) gives Y100 then X0.
C6_YDelayX ==
    (prog = "bridge" /\ lastOp.op = "cmd_vel") =>
        /\ Len(LastEvents) >= 1
        /\ LastEvents[1].kind = "write" /\ LastEvents[1].sym = "Y"
        /\ ~LastEvents[1].ok => Len(LastEvents) = 1
        /\ LastEvents[1].ok =>
              /\ Len(LastEvents) = 3
              /\ LastEvents[2] = Sleep(10)
              /\ LastEvents[3].kind = "write" /\ LastEvents[3].sym = "X"
        /\ (max_speed = 100 /\ lastOp.arg = <<VelDen, 0>> /\ LastEvents[1].ok) =>
              /\ LastEvents[1].val = 100
              /\ LastEvents[3].val = 0

\* send_velocity(1.0, 0.0, 100) went out as Y100, delay, X0
C6_Witness ==
    /\ prog = "bridge" /\ lastOp.op = "cmd_vel"
    /\ max_speed = 100 /\ lastOp.arg = <<VelDen, 0>>
    /\ LastEvents = <<Write("Y", 100, TRUE), Sleep(10), Write("X", 0, TRUE)>>

\* v is p / d truncated toward zero and then clamped to [-100, 100]
TruncClamped(p, d, v) ==
    /\ v \in -100..100
    /\ p >= 100 * d => v = 100
    /\ p <= -100 * d => v = -100
    /\ (-100 * d < p /\ p < 100 * d) =>
          /\ v * p >= 0
          /\ Abs(v) * d <= Abs(p)
          /\ Abs(p) < (Abs(v) + 1) * d

\* C7: the integer written on each drive channel is the component times
\* max_speed, truncated toward zero and clamped to [-100,100];
\* send_velocity(-0.5, 0.5, 50) writes Y-25 then X25.
C7_ScaledTruncClamped ==
    (prog = "bridge" /\ lastOp.op = "cmd_vel") =>
        /\ \A i \in 1..Len(LastEvents) :
              LastEvents[i].kind = "write" =>
                  TruncClamped(
                      (IF LastEvents[i].sym = "Y" THEN lastOp.arg[1]
                       ELSE lastOp.arg[2]) * max_speed,
                      VelDen, LastEvents[i].val)
        /\ (max_speed = 50 /\ 2 * lastOp.arg[1] = -VelDen
                /\ 2 * lastOp.arg[2] = VelDen /\ ~HasFailure(LastEvents)) =>
              /\ LastEvents[1].val = -25
              /\ LastEvents[3].val = 25

\* max_speed 75 with linear -0.5 and angular 1.5: -37.5 goes to -37 (toward
\* zero), 112.5 is clamped to 100
C7_Witness ==
    /\ prog = "bridge" /\ lastOp.op = "cmd_vel" /\ max_speed = 75
    /\ 2 * lastOp.arg[1] = -VelDen /\ 2 * lastOp.arg[2] = 3 * VelDen
    /\ LastEvents = <<Write("Y", -37, TRUE), Sleep(10), Write("X", 100, TRUE)>>

HomeWire == <<<<"G", 50>>, <<"T", 80>>, <<"B", 20>>, <<"U", 40>>, <<"E", 40>>,
              <<"L", 50>>, <<"R", 50>>>>
HomeTable ==
    [head_rotation |-> 50, neck_top |-> 80, neck_bottom |-> 20,
     eye_right |-> 40, eye_left |-> 40, arm_left |-> 50, arm_right |-> 50]

\* C8: the home preset makes exactly one write per actuator, in declaration
\* order, carrying G50 T80 B20 U40 E40 L50 R50, and afterwards every stored
\* position equals its home-table value, whatever the state before.
C8_HomePreset ==
    (prog = "keyboard" /\ lastOp.op = "home") =>
        /\ Len(LastWrites) = 7
        /\ \A i \in 1..7 :
              /\ LastWrites[i].sym = HomeWire[i][1]
              /\ LastWrites[i].val = HomeWire[i][2]
        /\ positions = HomeTable

\* home was pressed after neck_bottom had been selected,
\* and one of its writes raised
C8_Witness ==
    /\ prog = "keyboard" /\ lastOp.op = "home"
    /\ current_servo = "neck_bottom"
    /\ HasFailure(LastEvents)
    /\ positions = HomeTable

UsesLink(e) == e.kind \in {"write", "readline"}

\* within the first k events: the settle delay, after it both buffer resets,
\* and nothing written or read
ResetDone(events, k) ==
    /\ \E st \in 1..k, i \in 1..k, j \in 1..k :
          /\ events[st] = Sleep(SettleMs) /\ st < i /\ st < j
          /\ events[i] = ResetInput /\ events[j] = ResetOutput
    /\ \A m \in 1..k : ~UsesLink(events[m])

\* C11 (as claimed): in either program, a successful open is followed by the
\* settle delay and by a reset of both buffers, with no command written and no
\* echo read before the resets.
C11_ResetBeforeConnected ==
    (lastOp.op = "init" /\ serial = "open") =>
        \E k \in 1..Len(LastEvents) : ResetDone(LastEvents, k)

\* C11 (amended): the keyboard controller's open is followed by the settle
\* delay and both resets before anything is written or read; the bridge's open
\* is followed by the settle delay only, and the bridge never resets a buffer,
\* neither at startup nor before its first command.
C11_KeyboardResetsBridgeOnlySettles ==
    /\ (prog = "keyboard" /\ lastOp.op = "init" /\ serial = "open") =>
          \E k \in 1..Len(LastEvents) : ResetDone(LastEvents, k)
    /\ (prog = "bridge" /\ lastOp.op = "init" /\ serial = "open") =>
          LastEvents = <<Open(TRUE), Sleep(SettleMs)>>
    /\ prog = "bridge" =>
          \A m \in 1..Len(LastEvents) :
              LastEvents[m].kind \notin {"reset_input", "reset_output"}

\* the keyboard controller opened, settled, reset both buffers, wrote the test
\* command and read its echo
C11_Witness ==
    /\ prog = "keyboard" /\ lastOp.op = "init" /\ pc = "running"
    /\ LastEvents[3] = ResetInput /\ LastEvents[4] = ResetOutput
    /\ LastEvents[5] = Write("G", 50, TRUE)
    /\ LastEvents[Len(LastEvents)] = ReadLine("own")

\* the state a failed open of the bridge leaves behind
C12_FailedOpenState ==
    (prog = "bridge" /\ pc # "start" /\ serial = "none") =>
        /\ pc = "exited" /\ exitBy = "open_failed"
        /\ lastOp = Op("init", NoArg, <<Open(FALSE)>>)
        /\ nreq = 0
        /\ drive = [Y |-> 0, X |-> 0]

\* C12: when the bridge's serial device cannot be opened, the process ends
\* there: the only thing it ever did is the failed open, no velocity message
\* is handled, nothing is written, the drive channels are untouched, and no
\* step is ever taken from that state.
C12_OpenFailureIsFatal ==
    /\ [](C12_FailedOpenState)
    /\ [][~(prog = "bridge" /\ exitBy = "open_failed")]_vars

\* the bridge's open failed with a max_speed other than the default configured
C12_Witness ==
    /\ prog = "bridge" /\ pc = "exited" /\ exitBy = "open_failed"
    /\ serial = "none" /\ max_speed # DefaultMaxSpeed
    /\ LastEvents = <<Open(FALSE)>>

\* C13 (as claimed): once q or the single key ESC has been read, the control
\* loop has ended (terminal restored, port closed) with no further keypress
\* and no further command written.
C13_QuitKeysEndLoop ==
    (prog = "keyboard" /\ lastOp.op \in {"quit", "esc"}) =>
        /\ pc = "exited" /\ serial = "closed"
        /\ Writes(LastEvents) = <<>>

CenterWire == <<"G", "T", "B", "U", "E", "L", "R">>

\* C15: center_all makes exactly seven write attempts, one per actuator in
\* declaration order (G T B U E L R), each carrying 50, whichever of them
\* raise; afterwards every stored position is 50, whatever it was before.
C15_CenterAllOncePerActuator ==
    (prog = "keyboard" /\ lastOp.op = "center_all") =>
        /\ Len(LastWrites) = 7
        /\ \A i \in 1..7 :
              LastWrites[i].sym = CenterWire[i] /\ LastWrites[i].val = 50
        /\ \A s \in DOMAIN positions : positions[s] = 50
        /\ Cardinality(DOMAIN positions) = 7

\* center_all ran right after a home preset, and the write for neck_bottom
\* (the third) raised while the other six went through
C15_Witness ==
    /\ prog = "keyboard" /\ lastOp.op = "center_all" /\ pc = "running"
    /\ nkeys = 2 /\ Len(LastWrites) = 7
    /\ ~LastWrites[3].ok
    /\ \A i \in {1, 2, 4, 5, 6, 7} : LastWrites[i].ok
    /\ positions["neck_bottom"] = 50

SymbolOf ==
    [head_rotation |-> "G", neck_top |-> "T", neck_bottom |-> "B",
     eye_right |-> "U", eye_left |-> "E", arm_left |-> "L", arm_right |-> "R"]
SendOps == {"step", "reset", "center_all", "home"}

\* every write of the last keyboard command carries an actuator's own symbol
\* and the value stored for that actuator, within [0,100]
C16_WritesCarryStored ==
    (prog = "keyboard" /\ lastOp.op \in SendOps) =>
        /\ \A i \in 1..Len(LastWrites) :
              /\ LastWrites[i].val \in 0..100
              /\ \E s \in DOMAIN positions :
                    /\ SymbolOf[s] = LastWrites[i].sym
                    /\ positions[s] = LastWrites[i].val
                    /\ \A t \in DOMAIN positions :
                          SymbolOf[t] = LastWrites[i].sym => t = s
        /\ lastOp.op \in {"step", "reset"} =>
              /\ Len(LastWrites) = 1
              /\ LastWrites[1].sym = SymbolOf[current_servo]
              /\ LastWrites[1].val = positions[current_servo]
\* a stored position changes only in a command that writes the new value
\* under that actuator's symbol
C16_StoreChangesAreWritten ==
    (prog = "keyboard" /\ pc = "running") =>
        \A s \in DOMAIN positions :
            positions'[s] # positions[s] =>
                \E i \in 1..Len(lastOp'.events) :
                    /\ lastOp'.events[i].kind = "write"
                    /\ lastOp'.events[i].sym = SymbolOf[s]
                    /\ lastOp'.events[i].val = positions'[s]

\* C16: every servo command written carries the value stored for its
\* actuator at that moment, in [0,100], under that actuator's own symbol
\* (G,T,B,U,E,L,R, no two actuators sharing one), and a stored position never
\* changes without such a write: so while no write fails, the last value
\* written for an actuator is its stored position.
C16_WrittenIsStored == [](C16_WritesCarryStored) /\ [][C16_StoreChangesAreWritten]_vars

\* eye_left was selected and stepped down once, and E45 went out
C16_Witness ==
    /\ prog = "keyboard" /\ lastOp.op = "step" /\ current_servo = "eye_left"
    /\ ~HasFailure(LastEvents) /\ ~failedBefore
    /\ LastWrites = <<Write("E", 45, TRUE)>>
    /\ positions["eye_left"] = 45 /\ positions["eye_right"] = 50

\* one step of the bridge, seen from the link: a step that takes a velocity
\* message is one cmd_vel_callback run from its Y write to its end, and a
\* step that takes none writes nothing of a velocity message
C17_StepIsOneRequest ==
    prog = "bridge" =>
        /\ nreq' = nreq + 1 =>
              /\ lastOp'.op = "cmd_vel"
              /\ ~HasFailure(lastOp'.events) =>
                    /\ Len(lastOp'.events) = 3
                    /\ lastOp'.events[1] = Write("Y", drive'.Y, TRUE)
                    /\ lastOp'.events[2] = Sleep(10)
                    /\ lastOp'.events[3] = Write("X", drive'.X, TRUE)
                    /\ TruncClamped(lastOp'.arg[1] * max_speed, VelDen, drive'.Y)
                    /\ TruncClamped(lastOp'.arg[2] * max_speed, VelDen, drive'.X)
        /\ nreq' = nreq =>
              /\ lastOp'.op \in {"init", "destroy_node", "main_exit"}
              /\ \A i \in 1..Len(lastOp'.events) :
                    lastOp'.events[i].kind = "write" => lastOp'.events[i].val = 0

C18_YFailureStep ==
    (prog = "bridge" /\ nreq' = nreq + 1 /\ ~lastOp'.events[1].ok) =>
        /\ lastOp'.events[1].kind = "write" /\ lastOp'.events[1].sym = "Y"
        /\ Len(lastOp'.events) = 1
        /\ \A i \in 1..Len(lastOp'.events) : lastOp'.events[i].sym # "X"
        /\ drive' = drive
\* a message written in full replaces the turn value
C18_FullStep ==
    (prog = "bridge" /\ nreq' = nreq + 1 /\ ~HasFailure(lastOp'.events)) =>
        drive'.X = lastOp'.events[Len(lastOp'.events)].val

\* C18: when the Y write of a velocity command raises, the X write of that
\* command is not attempted: nothing for the turn channel goes on the link
\* and the device keeps its previous turn value, which the next command
\* written in full replaces.
C18_YFailureSkipsX == [][C18_YFailureStep /\ C18_FullStep]_vars

\* the device was turning; a message asking for no turn had its Y write
\* raise, and the device is still turning
C18_Witness ==
    /\ prog = "bridge" /\ nreq = 2 /\ lastOp.op = "cmd_vel"
    /\ LastEvents = <<Write("Y", 0, FALSE)>>
    /\ lastOp.arg = <<0, 0>>
    /\ drive.X # 0

\* a select key: only the selection changes, nothing goes on the link
C19_SelectStep ==
    (prog = "keyboard" /\ pc = "running" /\ lastOp'.op = "select") =>
        /\ positions' = positions
        /\ lastOp'.events = <<>>
        /\ current_servo' \in DOMAIN positions
        /\ current_servo' = ServoOrder[lastOp'.arg[1]]
        /\ serial' = serial /\ pc' = pc
\* a step or reset key: only the selected servo's position changes, and one
\* command goes out, for that servo
C19_MoveStep ==
    (prog = "keyboard" /\ pc = "running" /\ lastOp'.op \in {"step", "reset"}) =>
        /\ current_servo' = current_servo
        /\ DOMAIN positions' = DOMAIN positions
        /\ \A s \in DOMAIN positions :
              s # current_servo => positions'[s] = positions[s]
        /\ Len(Writes(lastOp'.events)) = 1
        /\ Writes(lastOp'.events)[1].sym = SymbolOf[current_servo]
        /\ Writes(lastOp'.events)[1].val = positions'[current_servo]
        /\ serial' = serial /\ pc' = pc

\* C19: a select key (1-7) changes the current selection and nothing else: no
\* stored position changes and nothing is written; a step or reset-current
\* key changes at most the stored position of the selected actuator, leaves
\* the other six and the selection as they were, and writes exactly one
\* command, for that actuator.
C19_FrameOfKeys == [][C19_SelectStep /\ C19_MoveStep]_vars

\* head_rotation was stepped up to 100, neck_top was then selected and stepped
\* down once: T45 went out, and head_rotation still holds 100
C19_Witness ==
    /\ prog = "keyboard" /\ lastOp.op = "step" /\ lastOp.arg = <<-5>>
    /\ current_servo = "neck_top"
    /\ LastWrites = <<Write("T", 45, TRUE)>>
    /\ positions["head_rotation"] = 100 /\ positions["neck_top"] = 45
    /\ positions["arm_left"] = 50

\* C20 (as claimed): a line the keyboard controller reads back after a
\* command is the device's echo of that command, never the echo of an
\* earlier one, also when the earlier echo arrives late.
C20_EchoIsOwn ==
    prog = "keyboard" =>
        \A i \in 1..Len(LastEvents) :
            LastEvents[i].kind = "readline" => LastEvents[i].sym = "own"

====
